---- MODULE Spec2Model ----
(***************************************************************************)
(* LocationWeatherCard.jsx: the request lifecycle of the area + weather    *)
(* card (getLocationAndWeather and the callbacks it registers) and the     *)
(* area-name resolver buildShortAreaName.                                  *)
(*                                                                         *)
(* JavaScript values are tagged records: [type |-> "null"],                *)
(* [type |-> "string", val |-> s], [type |-> "number", val |-> n], ...     *)
(* Temperatures are integers in hundredths of a degree Celsius.            *)
(* Strings are ASCII: the em dash U+2014 of the source is written "--".    *)
(*                                                                         *)
(* One action is one callback run to its next await; the continuation of   *)
(* an await runs in the step that settles the awaited promise.  The        *)
(* setters one callback calls are applied together, in one render.         *)
(*                                                                         *)
(* Spec lets getLocationAndWeather be invoked at any time after mount (the *)
(* controller's single entry point); SpecButton invokes it through the     *)
(* rendered button only, which is disabled while requesting.               *)
(***************************************************************************)
EXTENDS FiniteSets, Integers, Sequences, TLC

\* ---------------------------------------------------------------- bounds
\* number of locality fields present in an address handed to the resolver
MaxFields == 3
\* number of getLocationAndWeather invocations explored
MaxCycles == 2
\* Date.now() returns a value of 1..MaxNow
MaxNow == 1

\* ------------------------------------------------------ JavaScript values
Undefined == [type |-> "undefined"]
JNull == [type |-> "null"]
JStr(s) == [type |-> "string", val |-> s]
JNum(n) == [type |-> "number", val |-> n]
JObj(p) == [type |-> "object", props |-> p]
NoProps == [k \in {} |-> Undefined]

\* typeof v
TypeOf(v) == IF v.type = "null" THEN "object" ELSE v.type

\* ToBoolean(v): undefined, null, "" and 0 are falsy
Truthy(v) ==
  CASE v.type = "undefined" -> FALSE
    [] v.type = "null" -> FALSE
    [] v.type = "string" -> v.val # ""
    [] v.type = "number" -> v.val # 0
    [] OTHER -> TRUE

\* a || b
Or(a, b) == IF Truthy(a) THEN a ELSE b

\* o.k for an object o (undefined when the property is absent)
Get(o, k) == IF o.type = "object" /\ k \in DOMAIN o.props THEN o.props[k] ELSE Undefined

\* o?.k : undefined when o is null or undefined
OptGet(o, k) == IF o.type \in {"null", "undefined"} THEN Undefined ELSE Get(o, k)

\* --------------------------------------------------------------- strings
EmDash == "--"
UnknownArea == "Unknown area"
UnsupportedMsg == "Geolocation is not supported in this browser."
MissingTempMsg == "Weather data missing temperature."
FallbackMsg == "Failed to load area/weather."
\* message of the TypeError raised by data.address when data is null
NullReadMsg == "Cannot read properties of null (reading 'address')"
\* message of the SyntaxError with which res.json() rejects
JsonErrMsg == "Unexpected token < in JSON at position 0"

\* the ellipsis U+2026 and the suffix U+00B0 "C" of the temperature text
Ellipsis == "..."
DegreesC == "degC"

\* the error text without the code
PositionErrMsgPlain(err) == err.message

AreaHttpMsg(st) == "Area lookup failed (" \o ToString(st) \o ")"
WeatherHttpMsg(st) == "Weather fetch failed (" \o ToString(st) \o ")"
PositionErrMsg(err) == err.message \o " (code " \o ToString(err.code) \o ")"

\* cityLike with town tried before city
CityLikeOfTownFirst(address) ==
  Or(Get(address, "town"),
  Or(Get(address, "city"),
  Or(Get(address, "village"),
  Or(Get(address, "county"),
     Get(address, "state")))))

\* --------------------------------------------------- buildShortAreaName
LocalOf(address) ==
  Or(Get(address, "neighbourhood"),
  Or(Get(address, "quarter"),
  Or(Get(address, "suburb"),
  Or(Get(address, "city_district"),
  Or(Get(address, "borough"),
  Or(Get(address, "town"),
  Or(Get(address, "village"),
  Or(Get(address, "city"),
  Or(Get(address, "county"),
     Get(address, "state"))))))))))

CityLikeOf(address) ==
  Or(Get(address, "city"),
  Or(Get(address, "town"),
  Or(Get(address, "village"),
  Or(Get(address, "county"),
     Get(address, "state")))))

\* the resolver without the test local !== cityLike
buildShortAreaNameRepeat(address) ==
  IF ~Truthy(address) THEN JStr(UnknownArea)
  ELSE LET local == LocalOf(address)
           cityLike == CityLikeOf(address)
       IN IF Truthy(local) /\ Truthy(cityLike)
            THEN JStr(local.val \o ", " \o cityLike.val)
            ELSE Or(Or(local, cityLike), JStr(UnknownArea))

\* the resolver without its sentinel
buildShortAreaNameBare(address) ==
  IF ~Truthy(address) THEN Undefined
  ELSE LET local == LocalOf(address)
           cityLike == CityLikeOf(address)
       IN IF Truthy(local) /\ Truthy(cityLike) /\ local # cityLike
            THEN JStr(local.val \o ", " \o cityLike.val)
            ELSE Or(local, cityLike)

buildShortAreaName(address) ==
  IF ~Truthy(address) THEN JStr(UnknownArea)
  ELSE LET local == LocalOf(address)
           cityLike == CityLikeOf(address)
       IN IF Truthy(local) /\ Truthy(cityLike) /\ local # cityLike
            THEN JStr(local.val \o ", " \o cityLike.val)
            ELSE Or(local, Or(cityLike, JStr(UnknownArea)))

\* ------------------------------------------------------------ environment
\* res.ok
ResOk(st) == st >= 200 /\ st <= 299

HttpStatuses == {200, 500}

\* GeolocationPositionError values handed to the error callback
GeoErrors ==
  { [message |-> "User denied Geolocation", code |-> 1],
    [message |-> "Timeout expired", code |-> 3] }

\* messages of the TypeError with which fetch() rejects
FetchErrors == { "Failed to fetch", "" }

\* res.json() either rejects (Malformed) or resolves with a parsed value
Malformed == [type |-> "malformed"]

\* address objects of the reverse-geocoding responses
Addresses ==
  { JObj([suburb |-> JStr("X"), town |-> JStr("Y"), city |-> JStr("Z")]) }

AreaBodies ==
  { Malformed, JNull, JObj(NoProps) } \cup { JObj([address |-> a]) : a \in Addresses }

Temperatures == { Undefined, JNull, JStr("21.5"), JNum(0), JNum(2150) }

WeatherBodies ==
  { Malformed, JNull, JObj(NoProps) }
    \cup { JObj([current |-> JObj([temperature_2m |-> t])]) : t \in Temperatures \ {Undefined} }
    \cup { JObj([current |-> JObj(NoProps)]) }

\* data?.current?.temperature_2m
TempOf(data) == OptGet(OptGet(data, "current"), "temperature_2m")

\* ------------------------------------------------------------------ state
VARIABLES
  hasGeolocation, \* "geolocation" in navigator
  mounted,        \* the mount effect has run
  isSupported, status, error, areaName, tempC, updatedAt,
  started,        \* number of getLocationAndWeather invocations so far
  cyc,            \* per invocation: the position request and the two lookups
  writer          \* the invocation whose completion callback wrote the state last

vars == <<hasGeolocation, mounted, isSupported, status, error, areaName, tempC,
          updatedAt, started, cyc, writer>>

shown == <<status, error, areaName, tempC, updatedAt>>

Cycles == 1..MaxCycles

IdleLookup == [st |-> "idle", data |-> Undefined, res |-> Undefined]

NoCycle == [pos |-> "none", area |-> IdleLookup, weather |-> IdleLookup, joined |-> "none"]

Init ==
  /\ hasGeolocation \in BOOLEAN
  /\ mounted = FALSE
  /\ isSupported = TRUE
  /\ status = "idle"
  /\ error = JNull
  /\ areaName = JStr(EmDash)
  /\ tempC = JNull
  /\ updatedAt = JNull
  /\ started = 0
  /\ cyc = [c \in Cycles |-> NoCycle]
  /\ writer = 0

\* the mount effect records the missing capability without an error state
MountFlagOnly ==
  /\ ~mounted
  /\ mounted' = TRUE
  /\ isSupported' = hasGeolocation
  /\ UNCHANGED <<hasGeolocation, status, error, areaName, tempC, updatedAt, started, cyc, writer>>

\* useEffect(() => { if (!("geolocation" in navigator)) ... }, [])
Mount ==
  /\ ~mounted
  /\ mounted' = TRUE
  /\ IF ~hasGeolocation
       THEN /\ isSupported' = FALSE
            /\ status' = "error"
            /\ error' = JStr(UnsupportedMsg)
       ELSE UNCHANGED <<isSupported, status, error>>
  /\ UNCHANGED <<hasGeolocation, areaName, tempC, updatedAt, started, cyc, writer>>

\* getLocationAndWeather without the three payload setters
getLocationAndWeatherKeep ==
  /\ mounted
  /\ started < MaxCycles
  /\ status' = "requesting"
  /\ error' = JNull
  /\ started' = started + 1
  /\ writer' = started + 1
  /\ cyc' = [cyc EXCEPT ![started + 1].pos = IF hasGeolocation THEN "pending" ELSE "threw"]
  /\ UNCHANGED <<hasGeolocation, mounted, isSupported, areaName, tempC, updatedAt>>

\* getLocationAndWeather: the five setters, then getCurrentPosition.  Without
\* navigator.geolocation the call raises a TypeError after the setters ran
\* and no position request exists.
getLocationAndWeather ==
  /\ mounted
  /\ started < MaxCycles
  /\ status' = "requesting"
  /\ error' = JNull
  /\ areaName' = JStr(EmDash)
  /\ tempC' = JNull
  /\ updatedAt' = JNull
  /\ started' = started + 1
  /\ writer' = started + 1
  /\ cyc' = [cyc EXCEPT ![started + 1].pos = IF hasGeolocation THEN "pending" ELSE "threw"]
  /\ UNCHANGED <<hasGeolocation, mounted, isSupported>>

\* a button that stays enabled while a request is running
ButtonDisabledUnsupportedOnly == ~isSupported

\* <button disabled={status === "requesting" || !isSupported}>
ButtonDisabled == status = "requesting" \/ ~isSupported

\* onClick={getLocationAndWeather} of the enabled button
Click == ~ButtonDisabled /\ getLocationAndWeather

\* position success callback up to its await: both fetches are issued
PositionSuccess(c) ==
  /\ cyc[c].pos = "pending"
  /\ cyc' = [cyc EXCEPT ![c].pos = "ok",
                        ![c].area.st = "fetching",
                        ![c].weather.st = "fetching",
                        ![c].joined = "pending"]
  /\ UNCHANGED <<hasGeolocation, mounted, isSupported, shown, started, writer>>

\* a position error callback that reports nothing
PositionErrorSilent(c, err) ==
  /\ cyc[c].pos = "pending"
  /\ cyc' = [cyc EXCEPT ![c].pos = "failed"]
  /\ UNCHANGED <<hasGeolocation, mounted, isSupported, shown, started, writer>>

\* position error callback
PositionError(c, err) ==
  /\ cyc[c].pos = "pending"
  /\ cyc' = [cyc EXCEPT ![c].pos = "failed"]
  /\ status' = "error"
  /\ error' = JStr(PositionErrMsg(err))
  /\ writer' = c
  /\ UNCHANGED <<hasGeolocation, mounted, isSupported, areaName, tempC, updatedAt, started>>

\* a catch block that ignores the failure of a superseded cycle
catchBlockFresh(c, msg) ==
  IF c = started
    THEN /\ status' = "error"
         /\ error' = Or(JStr(msg), JStr(FallbackMsg))
         /\ writer' = c
         /\ UNCHANGED <<areaName, tempC, updatedAt>>
    ELSE UNCHANGED <<shown, writer>>

\* setError(e.message) without the fallback
catchBlockNoFallback(c, msg) ==
  /\ status' = "error"
  /\ error' = JStr(msg)
  /\ writer' = c
  /\ UNCHANGED <<areaName, tempC, updatedAt>>

\* catch (e): setStatus("error"); setError(e?.message || fallback)
catchBlock(c, msg) ==
  /\ status' = "error"
  /\ error' = Or(JStr(msg), JStr(FallbackMsg))
  /\ writer' = c
  /\ UNCHANGED <<areaName, tempC, updatedAt>>

\* after the await: the four setters of the joint success path
thenBlock(c, area, temp) ==
  /\ areaName' = area
  /\ tempC' = temp
  /\ \E now \in 1..MaxNow : updatedAt' = JNum(now)
  /\ status' = "success"
  /\ writer' = c
  /\ UNCHANGED error

\* the catch block keeps what the lookup that did return has produced
RejectPartial(c, lk, msg) ==
  LET first == cyc[c].joined = "pending"
  IN /\ cyc' = [cyc EXCEPT ![c][lk].st = "failed",
                           ![c].joined = IF first THEN "rejected" ELSE @]
     /\ IF first
          THEN /\ status' = "error"
               /\ error' = Or(JStr(msg), JStr(FallbackMsg))
               /\ writer' = c
               /\ areaName' = IF cyc[c].area.st = "ok" THEN cyc[c].area.res ELSE areaName
               /\ tempC' = IF cyc[c].weather.st = "ok" THEN cyc[c].weather.res ELSE tempC
               /\ UNCHANGED updatedAt
          ELSE UNCHANGED <<shown, writer>>
     /\ UNCHANGED <<hasGeolocation, mounted, isSupported, started>>

\* every rejection reaches the catch block, not only the first of a cycle
RejectAlways(c, lk, msg) ==
  /\ cyc' = [cyc EXCEPT ![c][lk].st = "failed", ![c].joined = "rejected"]
  /\ catchBlock(c, msg)
  /\ UNCHANGED <<hasGeolocation, mounted, isSupported, started>>

\* a failed lookup is silently issued again
RejectRetry(c, lk, msg) ==
  /\ cyc' = [cyc EXCEPT ![c][lk].st = "fetching"]
  /\ UNCHANGED <<hasGeolocation, mounted, isSupported, shown, started, writer>>

\* Promise.allSettled in place of Promise.all: a failure is reported once
\* the other lookup has settled too
RejectSettled(c, lk, msg) ==
  LET other == IF lk = "area" THEN "weather" ELSE "area"
      settled == cyc[c][other].st \in {"ok", "failed"}
      report == cyc[c].joined = "pending" /\ settled
  IN /\ cyc' = [cyc EXCEPT ![c][lk].st = "failed",
                           ![c].joined = IF report THEN "rejected" ELSE @]
     /\ IF report THEN catchBlock(c, msg) ELSE UNCHANGED <<shown, writer>>
     /\ UNCHANGED <<hasGeolocation, mounted, isSupported, started>>

\* lookup lk of cycle c throws an Error with message msg.  Promise.all
\* rejects on the first rejection only; then the catch block runs.
Reject(c, lk, msg) ==
  LET first == cyc[c].joined = "pending"
  IN /\ cyc' = [cyc EXCEPT ![c][lk].st = "failed",
                           ![c].joined = IF first THEN "rejected" ELSE @]
     /\ IF first THEN catchBlock(c, msg) ELSE UNCHANGED <<shown, writer>>
     /\ UNCHANGED <<hasGeolocation, mounted, isSupported, started>>

\* Promise.race in place of Promise.all: the first lookup to return resolves
ResolveRace(c, lk, data, val) ==
  LET first == cyc[c].joined = "pending"
      area == IF lk = "area" THEN val ELSE JStr(EmDash)
      temp == IF lk = "weather" THEN val ELSE JNull
  IN /\ cyc' = [cyc EXCEPT ![c][lk] = [st |-> "ok", data |-> data, res |-> val],
                           ![c].joined = IF first THEN "resolved" ELSE @]
     /\ IF first THEN thenBlock(c, area, temp) ELSE UNCHANGED <<shown, writer>>
     /\ UNCHANGED <<hasGeolocation, mounted, isSupported, started>>

\* each lookup publishes its own result as soon as it returns
ResolveEager(c, lk, data, val) ==
  LET other == IF lk = "area" THEN "weather" ELSE "area"
      both == cyc[c][other].st = "ok"
  IN /\ cyc' = [cyc EXCEPT ![c][lk] = [st |-> "ok", data |-> data, res |-> val],
                           ![c].joined = IF both THEN "resolved" ELSE @]
     /\ IF lk = "area" THEN areaName' = val /\ UNCHANGED tempC
                       ELSE tempC' = val /\ UNCHANGED areaName
     /\ IF both
          THEN /\ \E now \in 1..MaxNow : updatedAt' = JNum(now)
               /\ status' = "success"
               /\ writer' = c
          ELSE UNCHANGED <<updatedAt, status, writer>>
     /\ UNCHANGED <<error, hasGeolocation, mounted, isSupported, started>>

\* lookup lk of cycle c returns val (parsed from data).  Promise.all resolves
\* once both lookups have returned; then the four setters run.
Resolve(c, lk, data, val) ==
  LET other == IF lk = "area" THEN "weather" ELSE "area"
      both == cyc[c][other].st = "ok"
      area == IF lk = "area" THEN val ELSE cyc[c].area.res
      temp == IF lk = "weather" THEN val ELSE cyc[c].weather.res
  IN /\ cyc' = [cyc EXCEPT ![c][lk] = [st |-> "ok", data |-> data, res |-> val],
                           ![c].joined = IF both THEN "resolved" ELSE @]
     /\ IF both THEN thenBlock(c, area, temp) ELSE UNCHANGED <<shown, writer>>
     /\ UNCHANGED <<hasGeolocation, mounted, isSupported, started>>

\* a lookup whose response arrived waits for res.json()
Reading(c, lk) ==
  /\ cyc' = [cyc EXCEPT ![c][lk].st = "reading"]
  /\ UNCHANGED <<hasGeolocation, mounted, isSupported, shown, started, writer>>

\* reverseGeocodeArea: await fetch(url) rejects
AreaFetchFailed(c, msg) ==
  /\ cyc[c].area.st = "fetching"
  /\ Reject(c, "area", msg)

\* the body of the area response is read whatever its status is
AreaResponseAnyStatus(c, st) ==
  /\ cyc[c].area.st = "fetching"
  /\ Reading(c, "area")

\* reverseGeocodeArea: await fetch(url) resolves with a response of status st
AreaResponse(c, st) ==
  /\ cyc[c].area.st = "fetching"
  /\ IF ResOk(st) THEN Reading(c, "area") ELSE Reject(c, "area", AreaHttpMsg(st))

\* buildShortAreaName(data) in place of buildShortAreaName(data.address)
AreaBodyWhole(c, body) ==
  /\ cyc[c].area.st = "reading"
  /\ CASE body = Malformed -> Reject(c, "area", JsonErrMsg)
       [] body = JNull -> Reject(c, "area", NullReadMsg)
       [] OTHER -> Resolve(c, "area", body, buildShortAreaName(body))

\* reverseGeocodeArea: await res.json() settles; buildShortAreaName(data.address)
AreaBody(c, body) ==
  /\ cyc[c].area.st = "reading"
  /\ CASE body = Malformed -> Reject(c, "area", JsonErrMsg)
       [] body = JNull -> Reject(c, "area", NullReadMsg)
       [] OTHER -> Resolve(c, "area", body, buildShortAreaName(Get(body, "address")))

\* fetchCurrentTempC: await fetch(url) rejects
WeatherFetchFailed(c, msg) ==
  /\ cyc[c].weather.st = "fetching"
  /\ Reject(c, "weather", msg)

\* fetchCurrentTempC: await fetch(url) resolves with a response of status st
WeatherResponse(c, st) ==
  /\ cyc[c].weather.st = "fetching"
  /\ IF ResOk(st) THEN Reading(c, "weather") ELSE Reject(c, "weather", WeatherHttpMsg(st))

\* a missing temperature is read as 0 (t ?? 0) instead of being thrown
WeatherBodyDefault(c, body) ==
  /\ cyc[c].weather.st = "reading"
  /\ IF body = Malformed
       THEN Reject(c, "weather", JsonErrMsg)
       ELSE LET t == TempOf(body)
            IN Resolve(c, "weather", body, IF TypeOf(t) # "number" THEN JNum(0) ELSE t)

\* fetchCurrentTempC: await res.json() settles; typeof t !== "number"
WeatherBody(c, body) ==
  /\ cyc[c].weather.st = "reading"
  /\ IF body = Malformed
       THEN Reject(c, "weather", JsonErrMsg)
       ELSE LET t == TempOf(body)
            IN IF TypeOf(t) # "number"
                 THEN Reject(c, "weather", MissingTempMsg)
                 ELSE Resolve(c, "weather", body, t)

\* completions of the collaborators
Callbacks ==
  \E c \in Cycles :
    \/ PositionSuccess(c)
    \/ \E err \in GeoErrors : PositionError(c, err)
    \/ \E msg \in FetchErrors : AreaFetchFailed(c, msg)
    \/ \E st \in HttpStatuses : AreaResponse(c, st)
    \/ \E body \in AreaBodies : AreaBody(c, body)
    \/ \E msg \in FetchErrors : WeatherFetchFailed(c, msg)
    \/ \E st \in HttpStatuses : WeatherResponse(c, st)
    \/ \E body \in WeatherBodies : WeatherBody(c, body)

\* getLocationAndWeather may be invoked at any time after mount
Next == Mount \/ getLocationAndWeather \/ Callbacks

Spec == Init /\ [][Next]_vars

\* getLocationAndWeather is invoked through the rendered button only
NextButton == Mount \/ Click \/ Callbacks

SpecButton == Init /\ [][NextButton]_vars

\* whenever a completion of a collaborator is pending, one is delivered: every
\* position request invokes one of its callbacks, every lookup responds or
\* fails, and the event loop runs the continuation
Responsive == WF_vars(Callbacks)

SpecResponsive == Spec /\ Responsive

\* x.toFixed(1) of x = h / 100: the nearest tenth, of two equally near ones
\* the larger
ToFixed1(h) ==
  LET n == IF h >= 0 THEN (h + 5) \div 10 ELSE (-h + 4) \div 10
  IN (IF h < 0 THEN "-" ELSE "") \o ToString(n \div 10) \o "." \o ToString(n % 10)

\* the temperature text without the placeholder of a running request
tempTextNoPlaceholder ==
  IF TypeOf(tempC) = "number" THEN ToFixed1(tempC.val) \o DegreesC ELSE EmDash

\* const tempText = typeof tempC === "number" ? ... : status === "requesting" ? ... : ...
tempText ==
  IF TypeOf(tempC) = "number" THEN ToFixed1(tempC.val) \o DegreesC
  ELSE IF status = "requesting" THEN Ellipsis
  ELSE EmDash

\* ---------------------------------------------- the resolver on its inputs
Fields ==
  { "neighbourhood", "quarter", "suburb", "city_district", "borough",
    "town", "village", "city", "county", "state" }

\* a present field is the empty string or a name
FieldValues == { JStr(""), JStr("A"), JStr("B") }

\* address objects with at most MaxFields of the ten fields present
AddressInputs ==
  { JObj(f) : f \in UNION { [S -> FieldValues] :
                              S \in { T \in SUBSET Fields : Cardinality(T) <= MaxFields } } }

\* response bodies: without address, with a null address, with an address
ResolverBodies ==
  { JObj(NoProps), JObj([address |-> JNull]) } \cup { JObj([address |-> a]) : a \in AddressInputs }

\* the area lookup of a cycle, fed with every address; the weather lookup
\* stays in flight
NextResolver ==
  \/ Mount
  \/ Click
  \/ \E c \in Cycles :
       \/ PositionSuccess(c)
       \/ \E st \in HttpStatuses : AreaResponse(c, st)
       \/ cyc[c].area.st = "reading" /\ \E body \in ResolverBodies : AreaBody(c, body)

SpecResolver == Init /\ [][NextResolver]_vars

TypeOK ==
  /\ hasGeolocation \in BOOLEAN /\ mounted \in BOOLEAN /\ isSupported \in BOOLEAN
  /\ status \in {"idle", "requesting", "success", "error"}
  /\ error.type \in {"null", "string"}
  /\ areaName.type = "string"
  /\ tempC.type \in {"null", "number"}
  /\ updatedAt.type \in {"null", "number"}
  /\ started \in 0..MaxCycles
  /\ writer \in 0..MaxCycles

\* ----------------------------------------------------------- properties
Cleared == areaName = JStr(EmDash) /\ tempC = JNull /\ updatedAt = JNull

AnyFailed(c) == cyc[c].area.st = "failed" \/ cyc[c].weather.st = "failed"

BothOk(c) == cyc[c].area.st = "ok" /\ cyc[c].weather.st = "ok"

\* cycle c has issued a position request or a network request
Requested(c) ==
  \/ cyc[c].pos \in {"pending", "ok", "failed"}
  \/ cyc[c].area.st # "idle"
  \/ cyc[c].weather.st # "idle"

\* C1: a cycle writes Success only when both of its lookups have returned,
\* and the step in which a lookup of a cycle fails first writes Error for
\* that cycle, whatever the other lookup did before or does after.
C1_JoinNotRace ==
  /\ [](status = "success" => writer \in Cycles /\ BothOk(writer))
  /\ [][\A c \in Cycles : (~AnyFailed(c) /\ AnyFailed(c)') => (status' = "error" /\ writer' = c)]_vars
  /\ [](\A c \in Cycles : AnyFailed(c) => ~(status = "success" /\ writer = c))

C1_Witness ==
  \E c \in Cycles :
    /\ cyc[c].area.st = "failed" /\ cyc[c].weather.st = "ok"
    /\ status = "error" /\ writer = c

\* C2 (as claimed): every Error state has the cleared label, a null
\* temperature and a null timestamp.
C2_ErrorIsCleared == status = "error" => Cleared

\* C2 (amended): in an Error state the label, temperature and timestamp are
\* cleared, or they are the complete payload that another, overlapping cycle
\* wrote with its Success; a lookup result of a cycle that failed is never
\* exposed.
C2_NoPartialSuccess ==
  status = "error" =>
    \/ Cleared
    \/ \E c \in Cycles :
         /\ c # writer /\ cyc[c].joined = "resolved" /\ BothOk(c)
         /\ areaName = cyc[c].area.res /\ tempC = cyc[c].weather.res
         /\ updatedAt # JNull

C2_Witness ==
  \E c \in Cycles :
    /\ cyc[c].area.st = "ok" /\ cyc[c].weather.st = "failed"
    /\ status = "error" /\ writer = c /\ Cleared

\* C3 (as claimed): once getLocationAndWeather has been invoked where
\* geolocation is unavailable, the status is Error with the capability
\* message, not Requesting, and no position or network request was issued.
C3_UnsupportedYieldsError ==
  (~hasGeolocation /\ started > 0) =>
    /\ status = "error"
    /\ error = JStr(UnsupportedMsg)
    /\ \A c \in Cycles : ~Requested(c)

\* C3 (amended): where geolocation is unavailable it is the mount effect that
\* yields Error with the capability message, straight from Idle, and that
\* disables the button; no position or network request is ever issued.
\* getLocationAndWeather does not check the capability: invoked all the same
\* it sets Requesting, clears the message and raises before any request.
C3_UnsupportedAtMount ==
  ~hasGeolocation =>
    /\ \A c \in Cycles : ~Requested(c)
    /\ mounted => ~isSupported /\ ButtonDisabled
    /\ (mounted /\ started = 0) => (status = "error" /\ error = JStr(UnsupportedMsg))
    /\ started > 0 => (status = "requesting" /\ error = JNull /\ cyc[started].pos = "threw")

C3_Witness ==
  /\ ~hasGeolocation /\ started = 1 /\ cyc[1].pos = "threw"
  /\ status = "requesting" /\ error = JNull /\ ~isSupported

\* C4: an invocation of getLocationAndWeather sets Requesting and clears the
\* message, label, temperature and timestamp in one step, in which the new
\* position request is still unanswered; a Requesting state never carries a
\* message or payload.
C4_RequestingIsClean ==
  /\ [][started' # started =>
          /\ status' = "requesting" /\ error' = JNull /\ Cleared'
          /\ cyc'[started'].pos \in {"pending", "threw"}
          /\ cyc'[started'].area.st = "idle" /\ cyc'[started'].weather.st = "idle"]_vars
  /\ [](status = "requesting" => error = JNull /\ Cleared)

C4_Witness ==
  /\ status = "requesting" /\ started = 2 /\ writer = 2
  /\ cyc[1].joined = "resolved"
  /\ cyc[2].pos = "pending"

\* the step in which cycle c writes its outcome: its position request fails
\* or its Promise.all settles
Completes(c) ==
  \/ cyc[c].pos = "pending" /\ cyc'[c].pos = "failed"
  \/ cyc[c].joined = "pending" /\ cyc'[c].joined # "pending"

\* another cycle than c has ended in Error
OtherFailed(c) ==
  \E d \in Cycles \ {c} : cyc[d].pos = "failed" \/ cyc[d].joined = "rejected"

\* the payload of a Success state is the one resolved from the responses of
\* the cycle that wrote it
PayloadOfWriter ==
  /\ writer \in Cycles
  /\ areaName = buildShortAreaName(Get(cyc[writer].area.data, "address"))
  /\ tempC = TempOf(cyc[writer].weather.data)
  /\ TypeOf(tempC) = "number"
  /\ updatedAt # JNull

\* C5 (as claimed): a Success state carries the label and the temperature
\* resolved from the responses of the cycle that wrote it, a timestamp, and
\* no error message.
C5_SuccessPayload == status = "success" => (PayloadOfWriter /\ error = JNull)

\* C5 (amended): as claimed, except that the error message is null only if
\* no other cycle has ended in Error: the Success write does not clear the
\* message an overlapping cycle has written.
C5_SuccessPayloadOverlap ==
  status = "success" => (PayloadOfWriter /\ (error = JNull \/ OtherFailed(writer)))

C5_Witness ==
  /\ status = "success" /\ error = JNull
  /\ areaName = JStr("X, Z") /\ tempC = JNum(0) /\ updatedAt = JNum(1)

\* C6: an invocation leaves the requests of the earlier cycles as they are,
\* and every cycle that completes writes its own outcome over the shared
\* state, also when a newer cycle has been started or has completed.
C6_LastWriteWins ==
  /\ [][started' # started => \A c \in 1..started : cyc'[c] = cyc[c]]_vars
  /\ [][\A c \in Cycles : Completes(c) =>
          /\ writer' = c
          /\ IF cyc'[c].joined = "resolved"
               THEN /\ status' = "success"
                    /\ areaName' = cyc'[c].area.res /\ tempC' = cyc'[c].weather.res
               ELSE status' = "error" /\ error' # JNull]_vars

C6_Witness ==
  /\ started = 2 /\ writer = 1
  /\ cyc[2].joined = "resolved"
  /\ cyc[1].joined = "rejected"
  /\ status = "error" /\ areaName = cyc[2].area.res /\ tempC = cyc[2].weather.res

\* C7 (as claimed): the status is Idle until the first invocation and changes
\* only to Requesting by an invocation, or from Requesting to Success or
\* Error by the completion of a cycle.
C7_OnlyLifecycle ==
  /\ [](started = 0 => status = "idle")
  /\ [][status' # status =>
          \/ started' = started + 1 /\ status' = "requesting"
          \/ /\ status = "requesting" /\ status' \in {"success", "error"}
             /\ \E c \in Cycles : Completes(c)]_vars

\* C7 (amended): the status is Idle until the mount effect has run; it
\* changes to Requesting by an invocation, from Idle to Error by the mount
\* effect where geolocation is unavailable, and to Success or Error by the
\* completion of a cycle, from Requesting or, when cycles overlap, from the
\* Success or Error another cycle has written.
C7_LifecycleWithMount ==
  /\ [](~mounted => status = "idle")
  /\ [][status' # status =>
          \/ started' = started + 1 /\ status' = "requesting"
          \/ /\ ~mounted /\ mounted' /\ ~hasGeolocation
             /\ status = "idle" /\ status' = "error"
          \/ \E c \in Cycles :
               /\ Completes(c) /\ writer' = c
               /\ status' \in {"success", "error"}
               /\ \/ status = "requesting"
                  \/ writer \in Cycles \ {c} /\ status \in {"success", "error"}]_vars

C7_Witness ==
  /\ mounted /\ ~hasGeolocation /\ started = 0
  /\ status = "error" /\ error = JStr(UnsupportedMsg) /\ ~isSupported

\* C8: the label, the temperature and the timestamp are exposed together or
\* not at all, and what is exposed is the pair of results of one cycle whose
\* two lookups have both returned.
C8_JoinedPairOnly ==
  /\ (areaName # JStr(EmDash)) = (TypeOf(tempC) = "number")
  /\ (TypeOf(tempC) = "number") = (updatedAt # JNull)
  /\ areaName # JStr(EmDash) =>
       \E c \in Cycles :
         /\ BothOk(c) /\ cyc[c].joined = "resolved"
         /\ areaName = cyc[c].area.res /\ tempC = cyc[c].weather.res

C8_Witness ==
  \E c \in Cycles :
    /\ cyc[c].weather.st = "ok" /\ cyc[c].area.st = "reading"
    /\ writer = c /\ status = "requesting" /\ Cleared

\* C9: the position error callback writes Error with the message
\* "<message> (code <code>)", and a cycle whose position request failed has
\* issued neither lookup.
C9_PositionFailure ==
  /\ [][\A c \in Cycles : \A err \in GeoErrors :
          (cyc'[c].pos = "failed" /\ PositionError(c, err)) =>
            /\ status' = "error"
            /\ error' = JStr(err.message \o " (code " \o ToString(err.code) \o ")")]_vars
  /\ [](\A c \in Cycles :
          cyc[c].pos = "failed" =>
            cyc[c].area.st = "idle" /\ cyc[c].weather.st = "idle" /\ cyc[c].joined = "none")

C9_Witness ==
  \E c \in Cycles :
    /\ cyc[c].pos = "failed" /\ cyc[c].area.st = "idle" /\ cyc[c].weather.st = "idle"
    /\ writer = c /\ status = "error" /\ error = JStr("Timeout expired (code 3)")

\* parsed weather bodies without a numeric current.temperature_2m
BadTempBodies == { b \in WeatherBodies \ {Malformed} : TypeOf(TempOf(b)) # "number" }

\* C10 (as claimed): a weather body without a numeric temperature makes the
\* status Error with the missing-temperature message, and the temperature of
\* a Success state is a number taken from the response.
C10_MissingTemperature ==
  /\ [][\A c \in Cycles : \A body \in BadTempBodies :
          (cyc'[c].weather.st # "reading" /\ WeatherBody(c, body)) =>
            status' = "error" /\ error' = JStr(MissingTempMsg)]_vars
  /\ [](status = "success" =>
          TypeOf(tempC) = "number" /\ tempC = TempOf(cyc[writer].weather.data))

\* C10 (amended): such a body makes the weather lookup fail; the cycle ends
\* in Error, with the missing-temperature message unless the area lookup of
\* the cycle has failed before, in which case the state the area failure left
\* stands; the temperature of a Success state is a number taken from the
\* response.
C10_MissingTemperatureFirst ==
  /\ [][\A c \in Cycles : \A body \in BadTempBodies :
          (cyc'[c].weather.st # "reading" /\ WeatherBody(c, body)) =>
            /\ cyc'[c].weather.st = "failed" /\ cyc'[c].joined = "rejected"
            /\ IF cyc[c].area.st = "failed"
                 THEN UNCHANGED shown
                 ELSE status' = "error" /\ error' = JStr(MissingTempMsg)]_vars
  /\ [](status = "success" =>
          TypeOf(tempC) = "number" /\ tempC = TempOf(cyc[writer].weather.data))

C10_Witness ==
  \E c \in Cycles :
    /\ cyc[c].weather.st = "failed" /\ cyc[c].area.st = "ok"
    /\ writer = c /\ status = "error" /\ error = JStr(MissingTempMsg)

\* a request of cycle c is issued in this step
IssuesPosition(c) == cyc[c].pos = "none" /\ cyc'[c].pos = "pending"

IssuesLookup(c, lk) == cyc[c][lk].st # "fetching" /\ cyc'[c][lk].st = "fetching"

\* requests are issued by an invocation (its one position request) and by
\* the position success callback (one fetch per lookup), and what has
\* settled stays settled
OneRequestEach ==
  \A c \in Cycles :
    /\ IssuesPosition(c) => (started' = started + 1 /\ c = started')
    /\ cyc[c].pos # "none" => cyc'[c].pos \in {cyc[c].pos} \cup
                                (IF cyc[c].pos = "pending" THEN {"ok", "failed"} ELSE {})
    /\ \A lk \in {"area", "weather"} :
         /\ IssuesLookup(c, lk) =>
              cyc[c][lk].st = "idle" /\ cyc[c].pos = "pending" /\ cyc'[c].pos = "ok"
         /\ cyc[c][lk].st \in {"ok", "failed"} => cyc'[c][lk].st = cyc[c][lk].st

\* C11 (as claimed): every invocation issues exactly one position request
\* and at most one fetch per lookup, and while the status is Error without
\* a new invocation, the status stays Error and no request is issued.
C11_NoRetry ==
  /\ [][OneRequestEach]_vars
  /\ [](\A c \in 1..started : cyc[c].pos \in {"pending", "ok", "failed"})
  /\ [][(status = "error" /\ started' = started) =>
          /\ status' = "error"
          /\ \A c \in Cycles : ~IssuesPosition(c) /\ ~IssuesLookup(c, "area")
                                 /\ ~IssuesLookup(c, "weather")]_vars

\* C11 (amended): every invocation issues at most one position request
\* (exactly one where geolocation is available) and at most one fetch per
\* lookup, and nothing is issued again after a failure; a cycle that ended in
\* Error issues no further request, and the status then stays Error until the
\* next invocation or until another cycle, invoked before, completes.
C11_NoRetryPerCycle ==
  /\ [][OneRequestEach]_vars
  /\ [](\A c \in 1..started :
          cyc[c].pos \in (IF hasGeolocation THEN {"pending", "ok", "failed"} ELSE {"threw"}))
  /\ [](\A c \in Cycles :
          (status = "error" /\ writer = c) => (cyc[c].pos = "failed" \/ cyc[c].joined = "rejected"))
  /\ [][(status = "error" /\ started' = started /\ status' # "error") =>
          \E c \in Cycles \ {writer} : Completes(c) /\ writer' = c /\ status' = "success"]_vars

C11_Witness ==
  \E c \in Cycles :
    /\ started = c /\ writer = c /\ status = "error"
    /\ cyc[c].area.st = "failed" /\ cyc[c].weather.st = "failed"

\* ------------------------------------------------- the declared algorithm
LocalOrder ==
  << "neighbourhood", "quarter", "suburb", "city_district", "borough",
     "town", "village", "city", "county", "state" >>

CityLikeOrder == << "city", "town", "village", "county", "state" >>

\* the string of field k of the address record f, "" when absent
FieldString(f, k) == IF k \in DOMAIN f THEN f[k].val ELSE ""

RECURSIVE FirstNonEmpty(_, _)
FirstNonEmpty(f, order) ==
  IF order = << >> THEN ""
  ELSE IF FieldString(f, Head(order)) # "" THEN FieldString(f, Head(order))
  ELSE FirstNonEmpty(f, Tail(order))

Declared(f) ==
  LET local == FirstNonEmpty(f, LocalOrder)
      cityLike == FirstNonEmpty(f, CityLikeOrder)
  IN IF local # "" /\ cityLike # "" /\ local # cityLike THEN local \o ", " \o cityLike
     ELSE IF local # "" THEN local
     ELSE IF cityLike # "" THEN cityLike
     ELSE "Unknown area"

\* the address object the area lookup of cycle c has resolved
Resolved(c) == cyc[c].area.st = "ok"

AddressOf(c) == Get(cyc[c].area.data, "address")

\* C12: for every address of absent, empty or string fields the resolver
\* returns the value of the declared algorithm.
C12_DeclaredAlgorithm ==
  \A c \in Cycles :
    (Resolved(c) /\ AddressOf(c).type = "object") =>
      cyc[c].area.res = JStr(Declared(AddressOf(c).props))

C12_Witness ==
  \E c \in Cycles :
    /\ Resolved(c)
    /\ AddressOf(c) = JObj([suburb |-> JStr("A"), town |-> JStr("A"), city |-> JStr("B")])
    /\ cyc[c].area.res = JStr("A, B")

\* no field of the address of cycle c is usable
NothingUsable(c) ==
  \/ AddressOf(c).type # "object"
  \/ \A k \in Fields : FieldString(AddressOf(c).props, k) = ""

\* C13: whatever the address (no address object, no field, only empty
\* fields, any fields), the resolver returns a non-empty string, the
\* sentinel when no field is usable, and the lookup does not fail in it.
C13_NeverEmpty ==
  /\ [](\A c \in Cycles :
          Resolved(c) =>
            /\ cyc[c].area.res.type = "string" /\ cyc[c].area.res.val # ""
            /\ NothingUsable(c) => cyc[c].area.res = JStr("Unknown area"))
  /\ [][\A c \in Cycles :
          cyc[c].area.st = "reading" => cyc'[c].area.st \in {"reading", "ok"}]_vars

C13_Witness ==
  \E c \in Cycles :
    /\ Resolved(c)
    /\ AddressOf(c) = JObj([city |-> JStr(""), state |-> JStr("")])
    /\ cyc[c].area.res = JStr("Unknown area")

\* the text of a numeric temperature is the reading with one decimal
FormattedReading ==
  /\ TypeOf(tempC) = "number" => tempText \notin {Ellipsis, EmDash}
  /\ tempC = JNum(2150) => tempText = "21.5degC"
  /\ tempC = JNum(0) => tempText = "0.0degC"

\* C14 (as claimed): the temperature text is the formatted reading of a
\* numeric temperature, the ellipsis in every Requesting state and the em
\* dash in every Idle and every Error state.
C14_TempText ==
  /\ FormattedReading
  /\ status = "requesting" => tempText = Ellipsis
  /\ status \in {"idle", "error"} => tempText = EmDash

\* C14 (amended): as claimed, except that in an Error state the text is the
\* em dash only if no payload is exposed; an Error written over the Success
\* of an overlapping cycle shows that cycle's formatted temperature.
C14_TempTextOverlap ==
  /\ FormattedReading
  /\ status = "requesting" => tempText = Ellipsis
  /\ status = "idle" => tempText = EmDash
  /\ status = "error" =>
       \/ tempText = EmDash
       \/ \E c \in Cycles \ {writer} :
            /\ cyc[c].joined = "resolved" /\ tempC = cyc[c].weather.res
            /\ TypeOf(tempC) = "number"

C14_Witness ==
  /\ status = "requesting" /\ tempText = Ellipsis
  /\ started = 2 /\ cyc[1].joined = "resolved" /\ cyc[1].weather.res = JNum(2150)

\* the statuses of the environment that are not successful
FailedStatuses == { st \in HttpStatuses : ~ResOk(st) }

\* the messages of the two HTTP failures and of the missing temperature differ
Distinguishable ==
  \A st, su \in FailedStatuses :
    /\ AreaHttpMsg(st) # WeatherHttpMsg(su)
    /\ AreaHttpMsg(st) # MissingTempMsg
    /\ WeatherHttpMsg(su) # MissingTempMsg

\* C15 (as claimed): a response with a non-2xx status makes its lookup fail
\* without reading the body, and the status Error with the message naming
\* the lookup and the status code; the messages are distinguishable.
C15_HttpFailure ==
  /\ [][\A c \in Cycles : \A st \in FailedStatuses :
          /\ AreaResponse(c, st) =>
               /\ cyc'[c].area.st = "failed"
               /\ status' = "error"
               /\ error' = JStr("Area lookup failed (" \o ToString(st) \o ")")
          /\ WeatherResponse(c, st) =>
               /\ cyc'[c].weather.st = "failed"
               /\ status' = "error"
               /\ error' = JStr("Weather fetch failed (" \o ToString(st) \o ")")]_vars
  /\ []Distinguishable

\* C15 (amended): such a response makes its lookup fail without reading the
\* body; the status becomes Error with the message naming the lookup and the
\* status code unless the other lookup of the cycle has failed before, in
\* which case the state that failure left stands; the messages are
\* distinguishable.
C15_HttpFailureFirst ==
  /\ [][\A c \in Cycles : \A st \in FailedStatuses :
          /\ AreaResponse(c, st) =>
               /\ cyc'[c].area.st = "failed"
               /\ IF cyc[c].weather.st = "failed"
                    THEN UNCHANGED shown
                    ELSE /\ status' = "error"
                         /\ error' = JStr("Area lookup failed (" \o ToString(st) \o ")")
          /\ WeatherResponse(c, st) =>
               /\ cyc'[c].weather.st = "failed"
               /\ IF cyc[c].area.st = "failed"
                    THEN UNCHANGED shown
                    ELSE /\ status' = "error"
                         /\ error' = JStr("Weather fetch failed (" \o ToString(st) \o ")")]_vars
  /\ []Distinguishable

C15_Witness ==
  \E c \in Cycles :
    /\ cyc[c].area.st = "failed" /\ cyc[c].weather.st = "fetching"
    /\ writer = c /\ status = "error" /\ error = JStr("Area lookup failed (500)")

\* every Error state carries a message that is not empty
ErrorHasMessage == status = "error" => TypeOf(error) = "string" /\ error.val # ""

\* cycle c has written an Error
EndedInError(c) == cyc[c].pos = "failed" \/ cyc[c].joined = "rejected"

\* C16 (as claimed): the error message is non-null exactly in the Error
\* states, and there it is not empty.
C16_ErrorIffError ==
  /\ error # JNull <=> status = "error"
  /\ ErrorHasMessage

\* C16 (amended): Idle and Requesting states carry no error message, every
\* Error state carries a non-empty one, and a Success state carries one only
\* when it was written after the Error of an overlapping cycle, which the
\* success path does not clear.
C16_ErrorIffErrorOverlap ==
  /\ status \in {"idle", "requesting"} => error = JNull
  /\ ErrorHasMessage
  /\ (status = "success" /\ error # JNull) =>
       \E c \in Cycles \ {writer} : EndedInError(c)

\* a lookup failed without a message and the fallback is shown
C16_Witness ==
  /\ status = "error" /\ error = JStr(FallbackMsg)
  /\ writer > 0 /\ cyc[writer].joined = "rejected"

\* the messages a failure of lookup lk can leave in the Error state
LookupMessages(lk) ==
  { Or(JStr(m), JStr(FallbackMsg)) : m \in FetchErrors } \cup { JStr(JsonErrMsg) } \cup
  IF lk = "area"
    THEN { JStr(AreaHttpMsg(st)) : st \in FailedStatuses } \cup { JStr(NullReadMsg) }
    ELSE { JStr(WeatherHttpMsg(st)) : st \in FailedStatuses } \cup { JStr(MissingTempMsg) }

\* lookup lk of cycle c fails in this step
Fails(c, lk) == cyc[c][lk].st # "failed" /\ cyc'[c][lk].st = "failed"

\* C17: the first lookup of a cycle to fail makes the status Error with a
\* message of that failure at once, whatever the other lookup is doing, and
\* every later step of the lookups of that cycle leaves status, error
\* message, area label, temperature and timestamp unchanged.
C17_FirstFailureDecides ==
  [][\A c \in Cycles :
       /\ \A lk \in {"area", "weather"} :
            (cyc[c].joined = "pending" /\ Fails(c, lk)) =>
              /\ status' = "error" /\ error' \in LookupMessages(lk)
              /\ writer' = c /\ cyc'[c].joined = "rejected"
       /\ (cyc[c].joined = "rejected" /\ cyc'[c] # cyc[c]) => UNCHANGED shown
    ]_vars

\* the area lookup failed first and the weather lookup returned afterwards
C17_Witness ==
  \E c \in Cycles :
    /\ cyc[c].joined = "rejected" /\ cyc[c].area.st = "failed" /\ cyc[c].weather.st = "ok"
    /\ writer = c /\ status = "error" /\ error \in LookupMessages("area")

\* cycle c has started and its code can still write the state
InFlight(c) == cyc[c].pos = "pending" \/ cyc[c].joined = "pending"

\* C18: with getLocationAndWeather invoked through the button only, at most
\* one cycle is in flight, it is the newest one and the status is Requesting
\* while it is; the function is never invoked while a cycle is in flight, and
\* the state is never one written by an older cycle than the newest.
C18_ButtonSerialises ==
  /\ [](/\ Cardinality({ c \in Cycles : InFlight(c) }) <= 1
        /\ \A c \in Cycles : InFlight(c) => c = started /\ status = "requesting"
        /\ writer = started)
  /\ [][/\ started' # started => \A c \in Cycles : ~InFlight(c)
        /\ shown' # shown => writer' = started']_vars

\* the second click came after the first cycle had ended in Error, while the
\* other lookup of the first cycle was still running
C18_Witness ==
  /\ started = 2 /\ InFlight(2)
  /\ cyc[1].joined = "rejected" /\ cyc[1].weather.st = "fetching"

\* the status leaves Requesting in this step
LeavesRequesting == status = "requesting" /\ status' # "requesting"

\* a position request or the joined lookups of some cycle settle in this step
Settles ==
  \E c \in Cycles :
    \/ cyc[c].pos = "pending" /\ cyc'[c].pos = "failed"
    \/ cyc[c].joined = "pending" /\ cyc'[c].joined \in {"resolved", "rejected"}

\* C19: where the geolocation collaborator exists and the collaborators
\* respond, every Requesting state is followed by a Success or Error state;
\* and the status leaves Requesting only in a step in which a collaborator's
\* completion settles a cycle, there being no timer that would end it
\* otherwise.
C19_EventuallySettled ==
  /\ (hasGeolocation /\ status = "requesting") ~> status \in {"success", "error"}
  /\ [][LeavesRequesting => Settles]_vars

\* a cycle went through Requesting with both lookups running and has ended
C19_Witness ==
  \E c \in Cycles :
    /\ hasGeolocation /\ writer = c /\ status = "success"
    /\ cyc[c].joined = "resolved"

\* C20: for every address object, a non-empty cityLike comes with a
\* non-empty local; the result is the sentinel exactly when none of the ten
\* fields is usable; otherwise it is local or local followed by ", " and
\* cityLike, it is cityLike alone only where that is local too, and in the
\* two-part form the parts differ.
C20_LocalLeads ==
  \A c \in Cycles :
    (Resolved(c) /\ AddressOf(c).type = "object") =>
      LET local == LocalOf(AddressOf(c))
          cityLike == CityLikeOf(AddressOf(c))
          res == cyc[c].area.res
      IN /\ Truthy(cityLike) => Truthy(local)
         /\ res = JStr("Unknown area") <=> NothingUsable(c)
         /\ ~NothingUsable(c) =>
              /\ Truthy(local)
              /\ res = local \/ res = JStr(local.val \o ", " \o cityLike.val)
              /\ res = cityLike => cityLike = local
              /\ res # local => Truthy(cityLike) /\ local # cityLike

\* the only field is a cityLike one: local and cityLike are the same string
\* and the result is that string once
C20_Witness ==
  \E c \in Cycles :
    /\ Resolved(c)
    /\ AddressOf(c) = JObj([town |-> JStr("A")])
    /\ cyc[c].area.res = JStr("A")

====
